---- MODULE Spec2Model ----
(***************************************************************************)
(* Model of backend/worker/download_manager.py: the DownloadManager, its   *)
(* asyncio queue, its worker coroutines and the _download_video threads    *)
(* they hand requests to.                                                  *)
(*                                                                         *)
(* Granularity.  Coroutines of the event loop (start, stop, add_download,  *)
(* cancel_download, the dequeue-and-check part of _worker) run without     *)
(* interleaving between two awaits that suspend, so each is one action.    *)
(* _download_video runs in a pool thread: every _update_task call and      *)
(* every read of cancel_flags in it is its own step, and the event loop    *)
(* and the other threads interleave between them.                          *)
(*                                                                         *)
(* yt_dlp is an external library.  extract_info either returns or raises;  *)
(* download calls the progress hook any number of times with any event,    *)
(* then returns or raises; an exception raised by the hook either unwinds  *)
(* download or is swallowed by it ('ignoreerrors': True).                  *)
(*                                                                         *)
(* created_at / updated_at are wall-clock stamps and are not modelled.     *)
(***************************************************************************)
EXTENDS Integers, Sequences, FiniteSets, TLC

\* ---------------------------------------------------------------- settings
MAX_CONCURRENT_DOWNLOADS == 2
MAX_QUEUE_SIZE == 2

\* number of requests add_download accepts in a run of Spec (ids 1..MaxTasks)
MaxTasks == 3
\* number of requests add_download accepts in a run of SpecProgress
MaxProgressTasks == 1

TaskIds == 1..MaxTasks
\* mutant: start() spawns one worker loop too many
Workers_mut == 1..(MAX_CONCURRENT_DOWNLOADS + 1)
\* the worker loops start() creates (range(MAX_CONCURRENT_DOWNLOADS))
Workers == 1..MAX_CONCURRENT_DOWNLOADS
NoId == 0

\* ---------------------------------------------------------------- DownloadStatus
QUEUED == "queued"
FETCHING_INFO == "fetching_info"
DOWNLOADING == "downloading"
PROCESSING == "processing"
COMPLETED == "completed"
FAILED == "failed"
CANCELLED == "cancelled"

DownloadStatus == {QUEUED, FETCHING_INFO, DOWNLOADING, PROCESSING, COMPLETED, FAILED, CANCELLED}

\* Optional[str] = None, Optional[int] = None
None == "None"
NoneInt == -1

\* DownloadProgress as add_download builds it
DownloadProgress(task_id) ==
    [task_id |-> task_id, status |-> QUEUED, title |-> None, progress |-> 0,
     speed |-> None, eta |-> None, downloaded_bytes |-> NoneInt,
     total_bytes |-> NoneInt, error |-> None, file_path |-> None]

\* ---------------------------------------------------------------- external inputs
\* messages an exception of yt_dlp can carry
Messages == {"private video"}
CancelMessage == "Download cancelled"
\* what extract_info / prepare_filename give
Title == "Video"
FilePath == "downloads/Video.mp4"

\* progress events yt_dlp hands to the hook
NoEvent == [status |-> "none", percent_str |-> "", speed_str |-> None,
            eta_str |-> None, downloaded_bytes |-> NoneInt, total_bytes |-> NoneInt]
Events ==
    { [status |-> "downloading", percent_str |-> " 10.0%", speed_str |-> "1MiB/s",
       eta_str |-> "00:09", downloaded_bytes |-> 10, total_bytes |-> 100],
      [status |-> "downloading", percent_str |-> " 50.0%", speed_str |-> "1MiB/s",
       eta_str |-> "00:05", downloaded_bytes |-> 50, total_bytes |-> 100],
      [status |-> "downloading", percent_str |-> "N/A", speed_str |-> "N/A",
       eta_str |-> "N/A", downloaded_bytes |-> 0, total_bytes |-> NoneInt],
      [status |-> "finished", percent_str |-> "100%", speed_str |-> None,
       eta_str |-> None, downloaded_bytes |-> 100, total_bytes |-> 100],
      [status |-> "error", percent_str |-> "", speed_str |-> None,
       eta_str |-> None, downloaded_bytes |-> NoneInt, total_bytes |-> NoneInt] }

\* float(percent_str.replace('%', '').strip()); ParseError when float() raises
ParseError == -1
ParsePercent(s) ==
    CASE s = " 10.0%" -> 10
      [] s = " 50.0%" -> 50
      [] s = "100%" -> 100
      [] OTHER -> ParseError

\* ---------------------------------------------------------------- simple_downloader
\* the workspaces tempfile.mkdtemp(prefix="yt-stream-") can have made
MaxWorkspaces == 3
Workspaces == 1..MaxWorkspaces
\* what a workspace can hold: the downloaded file and the cookie jar copy
FileNames == {"video.mp4", "cookies.txt"}
\* a path is the workspace directory <<ws>> or a file <<ws, name>> in it
Paths == {<<ws>> : ws \in Workspaces} \cup (Workspaces \X FileNames)
\* the file systems: a file exists only inside an existing directory
DiskStates == {d \in SUBSET Paths : \A p \in d : <<p[1]>> \in d}

\* DownloadArtifact(filepath, filename, filesize, workspace)
DownloadArtifact(ws) ==
    [filepath |-> <<ws, "video.mp4">>, filename |-> "video.mp4", filesize |-> 100,
     workspace |-> <<ws>>]
Artifacts == {DownloadArtifact(ws) : ws \in Workspaces}

\* ---------------------------------------------------------------- state
VARIABLES
    tasks,          \* self.tasks: task_id -> DownloadProgress
    cancel_flags,   \* self.cancel_flags: task_id -> bool
    queue,          \* self.queue: the pending requests (their task ids)
    started,        \* start() has built the queue, the executor and the workers
    running,        \* self._running
    nextId,         \* ids handed out so far (uuid4 is taken to be fresh)
    pc,             \* where each worker (coroutine and its pool thread) is
    cur,            \* the task id each worker holds
    ev,             \* the progress event of the hook call a worker is in
    cancel_at,      \* history: task_id -> phase its request was in when cancel_download last returned True
    disk,           \* simple_downloader: the paths that exist under the temp directory
    cleanups,       \* history: workspace -> number of cleanup_artifact calls made on it
    stream          \* main.download_video: where the request that gets workspace ws is

vars == <<tasks, cancel_flags, queue, started, running, nextId, pc, cur, ev, cancel_at,
          disk, cleanups, stream>>

Terminal == {COMPLETED, FAILED, CANCELLED}
Active == {FETCHING_INFO, DOWNLOADING, PROCESSING}

\* dict helpers
Without(f, S) == [k \in DOMAIN f \ S |-> f[k]]
\* self.cancel_flags.get(task_id, False)
FlagGet(task_id) == IF task_id \in DOMAIN cancel_flags THEN cancel_flags[task_id] ELSE FALSE

\* the phase of the request with this id: in the queue, or where its worker is
Phase(task_id) ==
    IF \E w \in Workers : cur[w] = task_id
    THEN pc[CHOOSE w \in Workers : cur[w] = task_id]
    ELSE "queue"

\* ---------------------------------------------------------------- _update_task
\* mutant: an update for an id that is not in the store creates its record
update_task_mut(t, task_id, kwargs) ==
    LET old == IF task_id \in DOMAIN t THEN t[task_id] ELSE DownloadProgress(task_id)
    IN  (task_id :> [f \in DOMAIN old |-> IF f \in DOMAIN kwargs THEN kwargs[f] ELSE old[f]]) @@ t
\* with self.lock: if task_id in self.tasks: setattr each keyword
update_task(t, task_id, kwargs) ==
    IF task_id \in DOMAIN t
    THEN [t EXCEPT ![task_id] =
            [f \in DOMAIN @ |-> IF f \in DOMAIN kwargs THEN kwargs[f] ELSE @[f]]]
    ELSE t

\* ---------------------------------------------------------------- Init
\* DownloadManager.__init__ (queue None, no worker, not running)
DownloadManager_init ==
    /\ tasks = <<>>
    /\ cancel_flags = <<>>
    /\ queue = <<>>
    /\ started = FALSE
    /\ running = FALSE
    /\ nextId = 0
    /\ pc = [w \in Workers |-> "none"]
    /\ cur = [w \in Workers |-> NoId]
    /\ ev = [w \in Workers |-> NoEvent]
    /\ cancel_at = <<>>

NoCleanups == [ws \in Workspaces |-> 0]

\* Optional[str] = None for a path
NoPath == <<>>
\* a GET /api/download that has not arrived yet
NoStream == [pc |-> "new", cookiefile |-> NoPath, jar |-> NoPath, outcome |-> None]
NoStreams == [ws \in Workspaces |-> NoStream]

Init ==
    /\ DownloadManager_init
    /\ disk = {}
    /\ cleanups = NoCleanups
    /\ stream = NoStreams

\* ---------------------------------------------------------------- start / stop
\* len(self.workers): the worker loops created so far
workers_len == IF started THEN Cardinality(Workers) ELSE 0

\* What one start() call does and gives: it returns normally ("ok") whatever
\* the state; self.queue is a new empty asyncio.Queue (line 33), self.executor
\* a new ThreadPoolExecutor (line 34) and MAX_CONCURRENT_DOWNLOADS more worker
\* loops are appended to self.workers (lines 37-40).
start_result ==
    [ret |-> "ok", queue |-> <<>>, new_executor |-> TRUE, running |-> TRUE,
     workers_len |-> workers_len + Cardinality(Workers)]

start ==
    /\ queue' = start_result.queue
    /\ started' = TRUE
    /\ running' = start_result.running
    /\ pc' = [w \in Workers |-> "idle"]
    /\ UNCHANGED <<tasks, cancel_flags, nextId, cur, ev, cancel_at, disk, cleanups, stream>>

\* worker.cancel() ends a coroutine waiting on queue.get(); one waiting on
\* run_in_executor is ended too, and its work item is dropped if no pool thread
\* has taken it yet, else the thread runs on (shutdown(wait=False)).
stop ==
    /\ running' = FALSE
    /\ cancel_flags' = [id \in DOMAIN cancel_flags |-> TRUE]
    /\ \E dropped \in SUBSET {w \in Workers : pc[w] = "submitted"} :
         /\ pc' = [w \in Workers |->
                     IF pc[w] = "idle" \/ w \in dropped THEN "stopped" ELSE pc[w]]
         /\ cur' = [w \in Workers |-> IF w \in dropped THEN NoId ELSE cur[w]]
    /\ UNCHANGED <<tasks, queue, started, nextId, ev, cancel_at, disk, cleanups, stream>>

\* ---------------------------------------------------------------- add_download
\* mutant: the admission check is off by one
queue_full_mut(q) == Len(q) > MAX_QUEUE_SIZE
\* asyncio.Queue.full(): maxsize > 0 and qsize() >= maxsize
queue_full(q) == Len(q) >= MAX_QUEUE_SIZE

\* str(uuid.uuid4())[:8]
new_task_id == nextId + 1

\* What one add_download call does to (tasks, cancel_flags, queue) and what the
\* caller gets: "ok" (the task id is returned), "QueueFull" (the ValueError of
\* line 73), or "suspended" (parked in `await self.queue.put(...)`, which waits
\* while the queue has no free slot).
add_download_result(t, f, q, task_id) ==
    IF queue_full(q)
    THEN [ret |-> "QueueFull", task_id |-> NoId, tasks |-> t, cancel_flags |-> f, queue |-> q]
    ELSE LET t2 == (task_id :> DownloadProgress(task_id)) @@ t
             f2 == (task_id :> FALSE) @@ f
         IN  IF Len(q) < MAX_QUEUE_SIZE
             THEN [ret |-> "ok", task_id |-> task_id, tasks |-> t2, cancel_flags |-> f2,
                   queue |-> Append(q, task_id)]
             ELSE [ret |-> "suspended", task_id |-> task_id, tasks |-> t2,
                   cancel_flags |-> f2, queue |-> q]

add_download(limit) ==
    /\ started
    /\ LET r == add_download_result(tasks, cancel_flags, queue, new_task_id) IN
         /\ r.ret # "QueueFull" => nextId < limit
         /\ nextId' = IF r.ret = "QueueFull" THEN nextId ELSE nextId + 1
         /\ tasks' = r.tasks
         /\ cancel_flags' = r.cancel_flags
         /\ queue' = r.queue
    /\ UNCHANGED <<started, running, pc, cur, ev, cancel_at, disk, cleanups, stream>>

\* ---------------------------------------------------------------- POST /download
VideoFormat == {"mp4", "webm", "mkv", "audio"}
VideoQuality == {"best", "medium", "worst", "1080p", "720p", "480p", "360p"}
ALLOW_PLAYLISTS == TRUE

VideoUrl == "https://www.youtube.com/watch?v=dQw4w9WgXcQ"
PlaylistUrl == "https://www.youtube.com/playlist?list=PL123"
\* 'list=' in request.url or '/playlist?' in request.url
is_playlist_url(url) == url = PlaylistUrl

\* request bodies a client can post (playlist_items <<>> stands for None)
DownloadRequest(url, format, quality, playlist_items) ==
    [url |-> url, format |-> format, quality |-> quality, audio_only |-> FALSE,
     playlist_items |-> playlist_items]
Requests ==
    { DownloadRequest(VideoUrl, "mp4", "720p", <<>>),
      DownloadRequest(PlaylistUrl, "mp4", "best", <<1, 2>>),
      DownloadRequest("", "mp4", "720p", <<>>),
      DownloadRequest("not-a-valid-url", "mp4", "720p", <<>>),
      DownloadRequest(VideoUrl, "avi", "720p", <<>>),
      DownloadRequest(VideoUrl, "mp4", "4k", <<>>),
      DownloadRequest(PlaylistUrl, "mp4", "best", <<0>>) }

\* pydantic's validation of the body against DownloadRequest: url is any str,
\* format and quality are members of their enums, playlist_items any ints
DownloadRequest_validate(request) ==
    /\ request.format \in VideoFormat
    /\ request.quality \in VideoQuality

\* the route passes the request on to add_download
start_download_accepts(request) ==
    /\ DownloadRequest_validate(request)
    /\ ~(~ALLOW_PLAYLISTS /\ is_playlist_url(request.url))

\* What one POST /download does and answers: "ValidationError" (422, from
\* pydantic), "PlaylistsDisabled" (400), or what add_download gives ("ok" is
\* the 200 with the task id, "QueueFull" the 400 of line 135).
start_download_result(request, t, f, q, task_id) ==
    IF ~DownloadRequest_validate(request)
    THEN [ret |-> "ValidationError", task_id |-> NoId, tasks |-> t, cancel_flags |-> f, queue |-> q]
    ELSE IF ~start_download_accepts(request)
         THEN [ret |-> "PlaylistsDisabled", task_id |-> NoId, tasks |-> t,
               cancel_flags |-> f, queue |-> q]
         ELSE add_download_result(t, f, q, task_id)

start_download(request, limit) ==
    IF start_download_accepts(request)
    THEN add_download(limit)
    ELSE started /\ UNCHANGED vars

\* ---------------------------------------------------------------- _worker
\* what the worker does when _download_video is over: back to queue.get(), or
\* nothing if stop() cancelled the coroutine meanwhile
\* (mutant: the worker loop ends after its first download)
LoopPc_mut == "stopped"
LoopPc == IF running THEN "idle" ELSE "stopped"

\* mutant: the queue hands out the newest request (a LifoQueue)
queue_get_mut(q) == [item |-> q[Len(q)], queue |-> SubSeq(q, 1, Len(q) - 1)]
\* asyncio.Queue.get() on a non-empty queue: the oldest item leaves
queue_get(q) == [item |-> Head(q), queue |-> Tail(q)]

\* mutant: the worker reads the oldest request but leaves it in the queue
worker_dequeue_mut(w) ==
    /\ running
    /\ pc[w] = "idle"
    /\ queue # <<>>
    /\ pc' = [pc EXCEPT ![w] = "submitted"]
    /\ cur' = [cur EXCEPT ![w] = Head(queue)]
    /\ UNCHANGED <<tasks, queue, cancel_flags, started, running, nextId, ev, cancel_at, disk, cleanups, stream>>
\* lines 109-126: queue.get(), the cancel check, run_in_executor
worker_dequeue(w) ==
    /\ running
    /\ pc[w] = "idle"
    /\ queue # <<>>
    /\ LET task_id == queue_get(queue).item IN
         /\ queue' = queue_get(queue).queue
         /\ IF FlagGet(task_id)
            THEN /\ tasks' = update_task(tasks, task_id, [status |-> CANCELLED])
                 /\ UNCHANGED <<pc, cur>>
            ELSE /\ pc' = [pc EXCEPT ![w] = "submitted"]
                 /\ cur' = [cur EXCEPT ![w] = task_id]
                 /\ UNCHANGED tasks
    /\ UNCHANGED <<cancel_flags, started, running, nextId, ev, cancel_at, disk, cleanups, stream>>

\* ---------------------------------------------------------------- _download_video
\* the thread ends: the worker holds no task any more
Finish(w) ==
    /\ pc' = [pc EXCEPT ![w] = LoopPc]
    /\ cur' = [cur EXCEPT ![w] = NoId]
    /\ ev' = [ev EXCEPT ![w] = NoEvent]

\* line 144
download_begin(w) ==
    /\ pc[w] = "submitted"
    /\ tasks' = update_task(tasks, cur[w], [status |-> FETCHING_INFO])
    /\ pc' = [pc EXCEPT ![w] = "extract"]
    /\ UNCHANGED <<cancel_flags, queue, started, running, nextId, cur, ev, cancel_at, disk, cleanups, stream>>

\* lines 178-185: extract_info returned
extract_ok(w) ==
    /\ pc[w] = "extract"
    /\ tasks' = update_task(tasks, cur[w], [title |-> Title, status |-> DOWNLOADING])
    /\ pc' = [pc EXCEPT ![w] = "check"]
    /\ UNCHANGED <<cancel_flags, queue, started, running, nextId, cur, ev, cancel_at, disk, cleanups, stream>>

\* lines 188-190
check_cancelled(w) ==
    /\ pc[w] = "check"
    /\ IF FlagGet(cur[w])
       THEN /\ tasks' = update_task(tasks, cur[w], [status |-> CANCELLED])
            /\ Finish(w)
       ELSE /\ pc' = [pc EXCEPT ![w] = "download"]
            /\ UNCHANGED <<tasks, cur, ev>>
    /\ UNCHANGED <<cancel_flags, queue, started, running, nextId, cancel_at, disk, cleanups, stream>>

\* mutant: the handler marks the task failed but loses the message
handle_exception_mut(w, msg) ==
    /\ tasks' = update_task(tasks, cur[w], [status |-> FAILED])
    /\ Finish(w)
    /\ UNCHANGED <<cancel_flags, queue, started, running, nextId, cancel_at, disk, cleanups, stream>>
\* lines 212-217: except Exception as e
handle_exception(w, msg) ==
    /\ tasks' = update_task(tasks, cur[w], [status |-> FAILED, error |-> msg])
    /\ Finish(w)
    /\ UNCHANGED <<cancel_flags, queue, started, running, nextId, cancel_at, disk, cleanups, stream>>

\* extract_info or download raises
fetch_raise(w) ==
    /\ pc[w] \in {"extract", "download"}
    /\ \E msg \in Messages : handle_exception(w, msg)

\* mutant: the task is marked completed without its file path
download_return_mut(w) ==
    /\ pc[w] = "download"
    /\ tasks' = update_task(tasks, cur[w], [status |-> COMPLETED, progress |-> 100])
    /\ Finish(w)
    /\ UNCHANGED <<cancel_flags, queue, started, running, nextId, cancel_at, disk, cleanups, stream>>
\* lines 195-210: download returned
download_return(w) ==
    /\ pc[w] = "download"
    /\ tasks' = update_task(tasks, cur[w],
                   [status |-> COMPLETED, progress |-> 100, file_path |-> FilePath])
    /\ Finish(w)
    /\ UNCHANGED <<cancel_flags, queue, started, running, nextId, cancel_at, disk, cleanups, stream>>

\* ---------------------------------------------------------------- _progress_hook
\* lines 221-223 with the flag clear: yt_dlp calls the hook with event d
hook_enter(w, d) ==
    /\ pc[w] = "download"
    /\ ~FlagGet(cur[w])
    /\ pc' = [pc EXCEPT ![w] = "hook"]
    /\ ev' = [ev EXCEPT ![w] = d]
    /\ UNCHANGED <<tasks, cancel_flags, queue, started, running, nextId, cur, cancel_at, disk, cleanups, stream>>

\* lines 221-223 with the flag set: the hook raises Exception("Download cancelled")
\* and the exception leaves ydl.download, to the except of line 212.  (When
\* yt_dlp swallows it instead - 'ignoreerrors': True - download goes on as if
\* the hook had returned: no variable changes.)
hook_abort(w) ==
    /\ pc[w] = "download"
    /\ FlagGet(cur[w])
    /\ handle_exception(w, CancelMessage)

\* mutant: a percentage that does not parse is reported as progress 0
hook_kwargs_mut(d) ==
    IF d.status = "downloading"
    THEN [progress |-> IF ParsePercent(d.percent_str) = ParseError THEN 0
                       ELSE ParsePercent(d.percent_str),
          speed |-> d.speed_str, eta |-> d.eta_str,
          downloaded_bytes |-> d.downloaded_bytes, total_bytes |-> d.total_bytes]
    ELSE IF d.status = "finished"
         THEN [status |-> PROCESSING, progress |-> 100]
         ELSE <<>>
\* the keyword arguments the hook passes to _update_task for event d
\* (the empty record: no call, or float() raised and the bare except passed)
hook_kwargs(d) ==
    IF d.status = "downloading"
    THEN IF ParsePercent(d.percent_str) = ParseError
         THEN <<>>
         ELSE [progress |-> ParsePercent(d.percent_str), speed |-> d.speed_str,
               eta |-> d.eta_str, downloaded_bytes |-> d.downloaded_bytes,
               total_bytes |-> d.total_bytes]
    ELSE IF d.status = "finished"
         THEN [status |-> PROCESSING, progress |-> 100]
         ELSE <<>>

\* lines 225-250
hook_update(w) ==
    /\ pc[w] = "hook"
    /\ tasks' = update_task(tasks, cur[w], hook_kwargs(ev[w]))
    /\ pc' = [pc EXCEPT ![w] = "download"]
    /\ ev' = [ev EXCEPT ![w] = NoEvent]
    /\ UNCHANGED <<cancel_flags, queue, started, running, nextId, cur, cancel_at, disk, cleanups, stream>>

\* ---------------------------------------------------------------- cancel_download
\* the statuses cancel_download acts on (line 271)
CancellableStatuses == {QUEUED, DOWNLOADING, FETCHING_INFO}

\* mutant: cancel_download also records a message in the error field
cancel_download_result_mut(t, f, task_id) ==
    IF task_id \in DOMAIN t /\ t[task_id].status \in CancellableStatuses
    THEN [ret |-> TRUE,
          tasks |-> [t EXCEPT ![task_id].status = CANCELLED, ![task_id].error = CancelMessage],
          cancel_flags |-> (task_id :> TRUE) @@ f]
    ELSE [ret |-> FALSE, tasks |-> t, cancel_flags |-> f]
\* what one cancel_download call does to (tasks, cancel_flags) and returns
cancel_download_result(t, f, task_id) ==
    IF task_id \in DOMAIN t /\ t[task_id].status \in CancellableStatuses
    THEN [ret |-> TRUE,
          tasks |-> [t EXCEPT ![task_id].status = CANCELLED],
          cancel_flags |-> (task_id :> TRUE) @@ f]
    ELSE [ret |-> FALSE, tasks |-> t, cancel_flags |-> f]

cancel_download(task_id) ==
    /\ LET r == cancel_download_result(tasks, cancel_flags, task_id) IN
         /\ tasks' = r.tasks
         /\ cancel_flags' = r.cancel_flags
         /\ cancel_at' = IF r.ret THEN (task_id :> Phase(task_id)) @@ cancel_at
                         ELSE cancel_at
    /\ UNCHANGED <<queue, started, running, nextId, pc, cur, ev, disk, cleanups, stream>>

\* ---------------------------------------------------------------- remove_task
\* mutant: remove_task deletes the record and forgets the flag
remove_task_result_mut(t, f, task_id) ==
    IF task_id \in DOMAIN t
    THEN [ret |-> TRUE, tasks |-> Without(t, {task_id}), cancel_flags |-> f]
    ELSE [ret |-> FALSE, tasks |-> t, cancel_flags |-> f]
remove_task_result(t, f, task_id) ==
    IF task_id \in DOMAIN t
    THEN [ret |-> TRUE, tasks |-> Without(t, {task_id}),
          cancel_flags |-> Without(f, {task_id})]
    ELSE [ret |-> FALSE, tasks |-> t, cancel_flags |-> f]

remove_task(task_id) ==
    /\ LET r == remove_task_result(tasks, cancel_flags, task_id) IN
         /\ tasks' = r.tasks
         /\ cancel_flags' = r.cancel_flags
         /\ cancel_at' = Without(cancel_at, DOMAIN tasks \ DOMAIN r.tasks)
    /\ UNCHANGED <<queue, started, running, nextId, pc, cur, ev, disk, cleanups, stream>>

\* ---------------------------------------------------------------- clear_completed
\* mutant: clear_completed forgets the cancelled tasks
ClearStatuses_mut == {COMPLETED, FAILED}
\* the statuses clear_completed selects (line 293)
ClearStatuses == {COMPLETED, FAILED, CANCELLED}

\* to_remove, by walking self.tasks.items() from id `from` on
RECURSIVE to_remove(_, _)
to_remove(t, from) ==
    IF from > MaxTasks THEN <<>>
    ELSE IF from \in DOMAIN t /\ t[from].status \in ClearStatuses
         THEN <<from>> \o to_remove(t, from + 1)
         ELSE to_remove(t, from + 1)

\* the loop of lines 295-298 over the list r
RECURSIVE remove_all(_, _, _, _)
remove_all(r, t, f, count) ==
    IF r = <<>> THEN [ret |-> count, tasks |-> t, cancel_flags |-> f]
    ELSE remove_all(Tail(r), Without(t, {Head(r)}), Without(f, {Head(r)}), count + 1)

\* what one clear_completed call does to (tasks, cancel_flags) and returns
clear_completed_result(t, f) == remove_all(to_remove(t, 1), t, f, 0)

clear_completed ==
    /\ LET r == clear_completed_result(tasks, cancel_flags) IN
         /\ tasks' = r.tasks
         /\ cancel_flags' = r.cancel_flags
         /\ cancel_at' = Without(cancel_at, DOMAIN tasks \ DOMAIN r.tasks)
    /\ UNCHANGED <<queue, started, running, nextId, pc, cur, ev, disk, cleanups, stream>>

\* ---------------------------------------------------------------- get_task
NotFound == [task_id |-> NoId, status |-> None]
get_task(task_id) == IF task_id \in DOMAIN tasks THEN tasks[task_id] ELSE NotFound

\* ---------------------------------------------------------------- get_queue_status
\* sum(1 for t in self.tasks.values() if t.status in S)
RECURSIVE count_status(_, _, _)
count_status(t, S, from) ==
    IF from > MaxTasks THEN 0
    ELSE (IF from \in DOMAIN t /\ t[from].status \in S THEN 1 ELSE 0)
         + count_status(t, S, from + 1)

\* list(self.tasks.values())
RECURSIVE values(_, _)
values(t, from) ==
    IF from > MaxTasks THEN <<>>
    ELSE (IF from \in DOMAIN t THEN <<t[from]>> ELSE <<>>) \o values(t, from + 1)

\* the statuses counted as failed_downloads (line 307)
FailedStatuses == {FAILED, CANCELLED}

\* mutant: the active count leaves PROCESSING out, as cancel_download's list does
get_queue_status_mut ==
    [active_downloads |-> count_status(tasks, {DOWNLOADING, FETCHING_INFO}, 1),
     queued_downloads |-> count_status(tasks, {QUEUED}, 1),
     completed_downloads |-> count_status(tasks, {COMPLETED}, 1),
     failed_downloads |-> count_status(tasks, FailedStatuses, 1),
     tasks |-> values(tasks, 1)]
\* lines 301-315, under self.lock
get_queue_status ==
    [active_downloads |-> count_status(tasks, {DOWNLOADING, FETCHING_INFO, PROCESSING}, 1),
     queued_downloads |-> count_status(tasks, {QUEUED}, 1),
     completed_downloads |-> count_status(tasks, {COMPLETED}, 1),
     failed_downloads |-> count_status(tasks, FailedStatuses, 1),
     tasks |-> values(tasks, 1)]

\* ---------------------------------------------------------------- cleanup_artifact
\* shutil.rmtree(path, ignore_errors) on file system d: the directory goes with
\* all it holds; on a missing path it raises FileNotFoundError unless
\* ignore_errors is set
rmtree(d, path, ignore_errors) ==
    IF path \in d
    THEN [disk |-> {p \in d : p[1] # path[1]}, raised |-> FALSE]
    ELSE [disk |-> d, raised |-> ~ignore_errors]

\* mutant: rmtree without ignore_errors and without the try around it
cleanup_artifact_result_mut(d, artifact) == rmtree(d, artifact.workspace, FALSE)
\* What one cleanup_artifact call does to the file system and whether it
\* raises: rmtree runs with ignore_errors=True inside try / except Exception,
\* which only logs.
cleanup_artifact_result(d, artifact) ==
    [disk |-> rmtree(d, artifact.workspace, TRUE).disk, raised |-> FALSE]

\* calls of cleanup_artifact counted per workspace
MaxCleanups == 2

cleanup_artifact(artifact) ==
    LET ws == artifact.workspace[1] IN
      /\ cleanups[ws] < MaxCleanups
      /\ disk' = cleanup_artifact_result(disk, artifact).disk
      /\ cleanups' = [cleanups EXCEPT ![ws] = @ + 1]
      /\ UNCHANGED <<tasks, cancel_flags, queue, started, running, nextId, pc, cur, ev, cancel_at,
                     stream>>

\* ---------------------------------------------------------------- prepare_download
\* The streaming path: GET /api/download runs main.download_video in a server
\* thread, one per request; the request that mkdtemp gives workspace ws is
\* request ws.  yt_dlp.extract_info returns or raises; with download=True it
\* may or may not have produced a file and may or may not report its path.
\* cleanup_stale_workspaces only touches workspaces older than six hours; no
\* run of the model lasts that long.
BACKEND_DIR == <<0>>
COOKIES_FILE == <<0, "cookies.txt">>

ManagerVars == <<tasks, cancel_flags, queue, started, running, nextId, pc, cur, ev, cancel_at>>

\* prepare_cookie_jar(dest_dir) on file system d: the path of the writable
\* copy, or None when there is no COOKIES_FILE or the copy fails (`copied`)
prepare_cookie_jar_result(d, dest_dir, copied) ==
    IF COOKIES_FILE \notin d
    THEN [disk |-> d, path |-> NoPath]
    ELSE IF copied
         THEN [disk |-> d \cup {dest_dir, <<dest_dir[1], "cookies.txt">>},
               path |-> <<dest_dir[1], "cookies.txt">>]
         ELSE [disk |-> d \cup {dest_dir}, path |-> NoPath]

\* cleanup_cookie_jar(temp_path) on file system d: nothing for None and for
\* COOKIES_FILE; else os.remove, a missing file is ignored and any other
\* failure (a directory) is logged
cleanup_cookie_jar_result(d, temp_path) ==
    IF temp_path = NoPath \/ temp_path = COOKIES_FILE
    THEN d
    ELSE IF Len(temp_path) = 1 THEN d ELSE d \ {temp_path}

\* mutant: a failed preparation releases the cookie jar but keeps the workspace
prepare_download_except_mut(d, ws, cookiefile) == cleanup_cookie_jar_result(d, cookiefile)
\* lines 280-289: an exception inside the try: rmtree(workspace), re-raise,
\* and the finally runs cleanup_cookie_jar(cookiefile)
prepare_download_except(d, ws, cookiefile) ==
    cleanup_cookie_jar_result(rmtree(d, <<ws>>, TRUE).disk, cookiefile)

\* where the copy of the cookies is on file system d, if it still is anywhere
JarOn(d, jar) == IF jar \in d THEN jar ELSE NoPath

\* the request of workspace ws is over
StreamEnd(ws, outcome, d) ==
    [stream EXCEPT ![ws].pc = "done", ![ws].outcome = outcome, ![ws].jar = JarOn(d, @)]

\* main.py lines 246-260 and prepare_download lines 207-213: the URL check,
\* mkdtemp, prepare_cookie_jar(dest_dir=workspace)
download_video_begin(ws, valid, copied) ==
    /\ stream[ws].pc = "new"
    /\ IF ~valid
       THEN /\ stream' = StreamEnd(ws, "InvalidURL", disk)
            /\ UNCHANGED disk
       ELSE LET j == prepare_cookie_jar_result(disk \cup {<<ws>>}, <<ws>>, copied) IN
              /\ disk' = j.disk
              /\ stream' = [stream EXCEPT ![ws] =
                                [pc |-> "metadata", cookiefile |-> j.path, jar |-> j.path,
                                 outcome |-> None]]
    /\ UNCHANGED <<ManagerVars, cleanups>>

\* lines 217-228: the metadata fetch returned a usable description
metadata_ok(ws) ==
    /\ stream[ws].pc = "metadata"
    /\ stream' = [stream EXCEPT ![ws].pc = "download"]
    /\ UNCHANGED <<ManagerVars, disk, cleanups>>

\* extract_info raises, or lines 220-228 raise (no info, a live stream, an
\* unsupported format id)
prepare_raises(ws) ==
    /\ stream[ws].pc \in {"metadata", "download"}
    /\ disk' = prepare_download_except(disk, ws, stream[ws].cookiefile)
    /\ stream' = StreamEnd(ws, "PrepareError", disk')
    /\ UNCHANGED <<ManagerVars, cleanups>>

\* lines 231-279 and 288-289: extract_info(download=True) returned.  The
\* candidate is the path yt_dlp reports, else the first file os.listdir finds
\* in the workspace (any of them); none: RuntimeError.  The candidate is moved
\* to the final name, the artifact is returned and the finally runs
\* cleanup_cookie_jar(cookiefile).
download_returns(ws, produced, reported) ==
    /\ stream[ws].pc = "download"
    /\ LET d1 == IF produced THEN disk \cup {<<ws, "video.mp4">>} ELSE disk
           files == {p \in d1 : Len(p) = 2 /\ p[1] = ws}
           candidates == IF produced /\ reported THEN {<<ws, "video.mp4">>} ELSE files
           final == DownloadArtifact(ws).filepath
       IN  IF candidates = {}
           THEN /\ disk' = prepare_download_except(d1, ws, stream[ws].cookiefile)
                /\ stream' = StreamEnd(ws, "PrepareError", disk')
           ELSE \E candidate_path \in candidates :
                  LET d2 == (d1 \ {candidate_path}) \cup {final}
                      moved == IF stream[ws].jar = candidate_path THEN final
                               ELSE stream[ws].jar
                  IN  /\ disk' = cleanup_cookie_jar_result(d2, stream[ws].cookiefile)
                      /\ stream' = [stream EXCEPT ![ws].pc = "prepared",
                                                   ![ws].jar = JarOn(disk', moved)]
    /\ UNCHANGED <<ManagerVars, cleanups>>

\* another process deletes the prepared file under the temp directory
file_vanishes(ws) ==
    /\ stream[ws].pc = "prepared"
    /\ DownloadArtifact(ws).filepath \in disk
    /\ disk' = disk \ {DownloadArtifact(ws).filepath}
    /\ stream' = [stream EXCEPT ![ws].jar = JarOn(disk', @)]
    /\ UNCHANGED <<ManagerVars, cleanups>>

\* cleanup_artifact(artifact) called by download_video for request ws
stream_cleanup(ws) ==
    /\ disk' = cleanup_artifact_result(disk, DownloadArtifact(ws)).disk
    /\ cleanups' = [cleanups EXCEPT ![ws] = @ + 1]

\* main.py lines 262-312: the file is missing (DownloadError, except
\* BaseAPIError), something else raises (except Exception), or the
\* StreamingResponse is returned with cleanup_artifact as background task
download_video_check(ws, error) ==
    /\ stream[ws].pc = "prepared"
    /\ IF DownloadArtifact(ws).filepath \notin disk
       THEN /\ stream_cleanup(ws)
            /\ stream' = StreamEnd(ws, "FileMissing", disk')
       ELSE IF error
            THEN /\ stream_cleanup(ws)
                 /\ stream' = StreamEnd(ws, "Error", disk')
            ELSE /\ stream' = [stream EXCEPT ![ws].pc = "streaming"]
                 /\ UNCHANGED <<disk, cleanups>>
    /\ UNCHANGED ManagerVars

\* the response is over and its background task runs
stream_finished(ws) ==
    /\ stream[ws].pc = "streaming"
    /\ stream_cleanup(ws)
    /\ stream' = StreamEnd(ws, "Streamed", disk')
    /\ UNCHANGED ManagerVars

\* ---------------------------------------------------------------- specification
\* the events that change a task's status
StatusEvents == {d \in Events : d.status = "finished"}

\* start() and stop() are the lifecycle hooks, called once each.  `limit` bounds
\* the requests accepted, E is the set of events yt_dlp reports.
NextFor(limit, E) ==
    \/ (~started /\ start)
    \/ (running /\ stop)
    \/ \E request \in Requests : start_download(request, limit)
    \/ \E task_id \in TaskIds : cancel_download(task_id)
    \/ \E task_id \in TaskIds : remove_task(task_id)
    \/ clear_completed
    \/ \E w \in Workers : worker_dequeue(w)
    \/ \E w \in Workers : download_begin(w)
    \/ \E w \in Workers : extract_ok(w)
    \/ \E w \in Workers : check_cancelled(w)
    \/ \E w \in Workers : fetch_raise(w)
    \/ \E w \in Workers : download_return(w)
    \/ \E w \in Workers, d \in E : hook_enter(w, d)
    \/ \E w \in Workers : hook_update(w)
    \/ \E w \in Workers : hook_abort(w)

\* the scheduler: MaxTasks requests, status-changing progress events
Next == NextFor(MaxTasks, StatusEvents)
Spec == Init /\ [][Next]_vars

\* progress reporting: MaxProgressTasks requests, every progress event
NextProgress == NextFor(MaxProgressTasks, Events)
SpecProgress == Init /\ [][NextProgress]_vars

\* the manager stays running (stop() is not called), the event loop and the
\* pool schedule every worker fairly, and every fetch returns or raises
MaxLiveTasks == 3
NextLive ==
    \/ (~started /\ start)
    \/ \E request \in Requests : start_download(request, MaxLiveTasks)
    \/ \E task_id \in TaskIds : cancel_download(task_id)
    \/ \E task_id \in TaskIds : remove_task(task_id)
    \/ clear_completed
    \/ \E w \in Workers : worker_dequeue(w)
    \/ \E w \in Workers : download_begin(w)
    \/ \E w \in Workers : extract_ok(w)
    \/ \E w \in Workers : check_cancelled(w)
    \/ \E w \in Workers : fetch_raise(w)
    \/ \E w \in Workers : download_return(w)
    \/ \E w \in Workers, d \in StatusEvents : hook_enter(w, d)
    \/ \E w \in Workers : hook_update(w)
    \/ \E w \in Workers : hook_abort(w)
\* a step of worker w that only waits for the scheduler
WorkerStep(w) ==
    \/ worker_dequeue(w)
    \/ download_begin(w)
    \/ extract_ok(w)
    \/ check_cancelled(w)
    \/ hook_update(w)
\* the fetch of worker w ends
FetchEnds(w) == download_return(w) \/ fetch_raise(w) \/ hook_abort(w)
SpecLive ==
    /\ Init
    /\ [][NextLive]_vars
    /\ \A w \in Workers : WF_vars(WorkerStep(w)) /\ SF_vars(FetchEnds(w))

\* cleanup_artifact on any artifact, whatever is left of its workspace
InitArtifacts ==
    /\ DownloadManager_init
    /\ disk \in DiskStates
    /\ cleanups = NoCleanups
    /\ stream = NoStreams
NextArtifacts == \E artifact \in Artifacts : cleanup_artifact(artifact)
SpecArtifacts == InitArtifacts /\ [][NextArtifacts]_vars

\* the streaming path: up to MaxWorkspaces requests, with or without a
\* COOKIES_FILE next to the backend
InitStream ==
    /\ DownloadManager_init
    /\ disk \in {{}, {BACKEND_DIR, COOKIES_FILE}}
    /\ cleanups = NoCleanups
    /\ stream = NoStreams
NextStream ==
    \/ \E ws \in Workspaces, valid \in BOOLEAN, copied \in BOOLEAN :
          download_video_begin(ws, valid, copied)
    \/ \E ws \in Workspaces : metadata_ok(ws)
    \/ \E ws \in Workspaces : prepare_raises(ws)
    \/ \E ws \in Workspaces, produced \in BOOLEAN, reported \in BOOLEAN :
          download_returns(ws, produced, reported)
    \/ \E ws \in Workspaces : file_vanishes(ws)
    \/ \E ws \in Workspaces, error \in BOOLEAN : download_video_check(ws, error)
    \/ \E ws \in Workspaces : stream_finished(ws)
SpecStream == InitStream /\ [][NextStream]_vars

\* the manager without cancel_download: a request in the queue has a QUEUED
\* record or none
NextNoCancel ==
    \/ (~started /\ start)
    \/ (running /\ stop)
    \/ \E request \in Requests : start_download(request, MaxTasks)
    \/ \E task_id \in TaskIds : remove_task(task_id)
    \/ clear_completed
    \/ \E w \in Workers : worker_dequeue(w)
    \/ \E w \in Workers : download_begin(w)
    \/ \E w \in Workers : extract_ok(w)
    \/ \E w \in Workers : check_cancelled(w)
    \/ \E w \in Workers : fetch_raise(w)
    \/ \E w \in Workers : download_return(w)
    \/ \E w \in Workers, d \in StatusEvents : hook_enter(w, d)
    \/ \E w \in Workers : hook_update(w)
    \/ \E w \in Workers : hook_abort(w)
SpecNoCancel == Init /\ [][NextNoCancel]_vars

\* a fetch that blocks until released: the manager is started, add_download is
\* called up to MaxBlockingCalls times, the workers take requests and their
\* threads go into the fetch and stay there (no return, no raise, no cancel)
MaxBlockingCalls == 5
NextBlocking ==
    \/ (~started /\ start)
    \/ add_download(MaxBlockingCalls)
    \/ \E w \in Workers : worker_dequeue(w)
    \/ \E w \in Workers : download_begin(w)
    \/ \E w \in Workers : extract_ok(w)
    \/ \E w \in Workers : check_cancelled(w)
    \/ \E w \in Workers, d \in Events : hook_enter(w, d)
    \/ \E w \in Workers : hook_update(w)
SpecBlocking == Init /\ [][NextBlocking]_vars

\* ================================================================ claims
NonTerminal == DownloadStatus \ Terminal
ActiveTasks == {id \in DOMAIN tasks : tasks[id].status \in Active}
WithStatus(S) == {id \in DOMAIN tasks : tasks[id].status \in S}
\* the request with this id is with no worker and not in the queue any more
WorkerDone(id) == (\A w \in Workers : cur[w] # id) /\ (\A i \in 1..Len(queue) : queue[i] # id)

\* C1: in every reachable state at most MAX_CONCURRENT_DOWNLOADS task records
\* have status FETCHING_INFO, DOWNLOADING or PROCESSING.
C1_ConcurrencyBound == Cardinality(ActiveTasks) <= MAX_CONCURRENT_DOWNLOADS

\* all workers busy with an active task while a further request waits in the queue
C1_Witness ==
    /\ Cardinality(ActiveTasks) = MAX_CONCURRENT_DOWNLOADS
    /\ \E i \in 1..Len(queue) : queue[i] \in WithStatus({QUEUED})

\* C2: with MAX_QUEUE_SIZE requests pending, add_download fails at once with the
\* queue-full error, creates no task record and no cancellation flag; no call
\* of add_download is ever left waiting for space in the queue.
C2_QueueFullRejects ==
    started =>
        LET r == add_download_result(tasks, cancel_flags, queue, new_task_id) IN
          /\ r.ret # "suspended"
          /\ Len(queue) >= MAX_QUEUE_SIZE =>
                /\ r.ret = "QueueFull"
                /\ r.tasks = tasks
                /\ r.cancel_flags = cancel_flags
                /\ r.queue = queue

\* the queue is full and a further request could still be made
C2_Witness == started /\ Len(queue) = MAX_QUEUE_SIZE /\ nextId < MaxTasks

\* C3: once a record's status is COMPLETED, FAILED or CANCELLED no step changes
\* any of its fields; it only changes by being removed.
C3_TerminalImmutable ==
    [][\A id \in DOMAIN tasks :
          tasks[id].status \in Terminal =>
              (id \notin DOMAIN tasks' \/ tasks'[id] = tasks[id])]_vars

\* C4: after cancel_download(id) returned True the record of id never has
\* status COMPLETED.
C4_CancelledNeverCompleted ==
    \A id \in DOMAIN cancel_at : id \in DOMAIN tasks => tasks[id].status # COMPLETED

\* C5: while a record's status is DOWNLOADING its progress never decreases.
C5_MonotonicProgress ==
    [][\A id \in DOMAIN tasks \cap DOMAIN tasks' :
          (tasks[id].status = DOWNLOADING /\ tasks'[id].status = DOWNLOADING)
              => tasks'[id].progress >= tasks[id].progress]_vars

\* C6: a task cancelled while its worker was inside a progress callback has
\* status CANCELLED once the worker has finished with it (stated for the runs
\* in which yt_dlp raised no error of its own for that task).
C6_CancelInHookEndsCancelled ==
    \A id \in DOMAIN cancel_at :
        (/\ cancel_at[id] = "hook"
         /\ id \in DOMAIN tasks
         /\ WorkerDone(id)
         /\ tasks[id].error \notin Messages)
            => tasks[id].status = CANCELLED

\* C7: cancel_download on a task in any non-terminal status sets its flag,
\* sets its status to CANCELLED and returns True.
C7_CancelNonTerminal ==
    \A id \in DOMAIN tasks :
        tasks[id].status \in NonTerminal =>
            LET r == cancel_download_result(tasks, cancel_flags, id) IN
              /\ r.ret
              /\ r.cancel_flags[id]
              /\ r.tasks[id].status = CANCELLED

\* C8: when the fetch of a task raises with message msg, the task's record gets
\* status FAILED and error msg, no other record changes, none is added or
\* removed, and the worker is back at queue.get() (its loop is still alive
\* unless stop() ended it).
C8_FetchErrorContained ==
    [][\A w \in Workers, msg \in Messages \cup {CancelMessage} :
          (pc[w] \in {"extract", "download"} /\ handle_exception(w, msg)) =>
              /\ DOMAIN tasks' = DOMAIN tasks
              /\ cur[w] \in DOMAIN tasks =>
                    /\ tasks'[cur[w]].status = FAILED
                    /\ tasks'[cur[w]].error = msg
              /\ \A id \in DOMAIN tasks \ {cur[w]} : tasks'[id] = tasks[id]
              /\ cancel_flags' = cancel_flags
              /\ queue' = queue
              /\ running => (pc'[w] = "idle" /\ cur'[w] = NoId)]_vars

\* a fetch has failed with the extractor's message, another request waits and
\* an idle worker is there to take it
C8_Witness ==
    /\ running
    /\ \E id \in DOMAIN tasks :
         /\ tasks[id].status = FAILED
         /\ tasks[id].error \in Messages
         /\ WorkerDone(id)
    /\ \E w \in Workers : pc[w] = "idle"
    /\ queue # <<>>

\* C9 as stated: failed_downloads is the number of records in FAILED.
C9_QueueStatusOriginal ==
    LET q == get_queue_status IN
      /\ q.active_downloads = Cardinality(WithStatus(Active))
      /\ q.queued_downloads = Cardinality(WithStatus({QUEUED}))
      /\ q.completed_downloads = Cardinality(WithStatus({COMPLETED}))
      /\ q.failed_downloads = Cardinality(WithStatus({FAILED}))
      /\ Len(q.tasks) = Cardinality(DOMAIN tasks)
      /\ {q.tasks[i] : i \in 1..Len(q.tasks)} = {tasks[id] : id \in DOMAIN tasks}

\* C9 (amended): get_queue_status counts the records of the store by status:
\* active_downloads those in FETCHING_INFO, DOWNLOADING or PROCESSING,
\* queued_downloads those in QUEUED, completed_downloads those in COMPLETED,
\* failed_downloads those in FAILED or CANCELLED; tasks lists exactly the records.
C9_QueueStatus ==
    LET q == get_queue_status IN
      /\ q.active_downloads = Cardinality(WithStatus(Active))
      /\ q.queued_downloads = Cardinality(WithStatus({QUEUED}))
      /\ q.completed_downloads = Cardinality(WithStatus({COMPLETED}))
      /\ q.failed_downloads = Cardinality(WithStatus({FAILED, CANCELLED}))
      /\ Len(q.tasks) = Cardinality(DOMAIN tasks)
      /\ {q.tasks[i] : i \in 1..Len(q.tasks)} = {tasks[id] : id \in DOMAIN tasks}

\* a failed, a cancelled and a processing task at once
C9_Witness ==
    /\ WithStatus({FAILED}) # {}
    /\ WithStatus({CANCELLED}) # {}
    /\ WithStatus({PROCESSING}) # {}
    /\ get_queue_status.failed_downloads = 2
    /\ get_queue_status.active_downloads = 1

\* C10: clear_completed removes exactly the records in COMPLETED, FAILED or
\* CANCELLED and their flags, returns their number, and leaves every other
\* record and flag as it was.
C10_ClearCompleted ==
    LET r == clear_completed_result(tasks, cancel_flags)
        gone == WithStatus(Terminal)
    IN  /\ DOMAIN r.tasks = DOMAIN tasks \ gone
        /\ DOMAIN r.cancel_flags = DOMAIN cancel_flags \ gone
        /\ r.ret = Cardinality(gone)
        /\ \A id \in DOMAIN r.tasks : r.tasks[id] = tasks[id]
        /\ \A id \in DOMAIN r.cancel_flags : r.cancel_flags[id] = cancel_flags[id]

\* a completed and a cancelled task to clear, and a downloading one to keep
C10_Witness ==
    /\ WithStatus({COMPLETED}) # {}
    /\ WithStatus({CANCELLED}) # {}
    /\ WithStatus({DOWNLOADING}) # {}
    /\ clear_completed_result(tasks, cancel_flags).ret = 2

\* the workers have taken every request they can: the queue is empty or no
\* worker is waiting on queue.get()
WorkersCaughtUp == queue = <<>> \/ \A w \in Workers : pc[w] # "idle"
\* the requests the blocking scenario can hold: the running and the pending
BlockingCapacity == MAX_CONCURRENT_DOWNLOADS + MAX_QUEUE_SIZE

\* C11 as stated: with blocking fetches the first four add_download calls
\* succeed, whenever they are made.
C11_FirstFourSucceedOriginal ==
    (started /\ nextId < BlockingCapacity) =>
        add_download_result(tasks, cancel_flags, queue, new_task_id).ret = "ok"

\* C11 (amended): with MAX_CONCURRENT_DOWNLOADS = 2, MAX_QUEUE_SIZE = 2 and
\* fetches that block, each add_download call made once the workers have taken
\* what they can from the queue succeeds until four requests are accepted; then
\* two tasks are running, two requests are pending and the fifth call fails
\* with the queue-full error.  No more than four are ever accepted.
C11_BlockingScenario ==
    /\ nextId <= BlockingCapacity
    /\ (started /\ WorkersCaughtUp) =>
          LET r == add_download_result(tasks, cancel_flags, queue, new_task_id) IN
            /\ nextId < BlockingCapacity => r.ret = "ok"
            /\ nextId = BlockingCapacity =>
                  /\ \A w \in Workers : cur[w] \in DOMAIN tasks
                  /\ Cardinality({cur[w] : w \in Workers}) = MAX_CONCURRENT_DOWNLOADS
                  /\ Len(queue) = MAX_QUEUE_SIZE
                  /\ \A i \in 1..Len(queue) : tasks[queue[i]].status = QUEUED
                  /\ r.ret = "QueueFull"

\* four accepted: two threads inside the blocked fetch, two requests pending,
\* and the fifth call is refused
C11_Witness ==
    /\ nextId = BlockingCapacity
    /\ \A w \in Workers : pc[w] \in {"extract", "download"}
    /\ Len(queue) = MAX_QUEUE_SIZE
    /\ add_download_result(tasks, cancel_flags, queue, new_task_id).ret = "QueueFull"

\* C12: in every reachable state, a record's file_path is set exactly when
\* its status is COMPLETED.
C12_FilePathIffCompleted ==
    \A id \in DOMAIN tasks :
        (tasks[id].file_path # None) <=> (tasks[id].status = COMPLETED)

\* a completed task with its file next to a cancelled and a failed one without
C12_Witness ==
    /\ \E id \in DOMAIN tasks :
          tasks[id].status = COMPLETED /\ tasks[id].file_path = FilePath
    /\ \E id \in DOMAIN tasks :
          tasks[id].status = CANCELLED /\ tasks[id].file_path = None
    /\ \E id \in DOMAIN tasks :
          tasks[id].status = FAILED /\ tasks[id].file_path = None

\* C13: in every reachable state, a record's error is set exactly when its
\* status is FAILED.
C13_ErrorIffFailed ==
    \A id \in DOMAIN tasks :
        (tasks[id].error # None) <=> (tasks[id].status = FAILED)

\* a task failed by the extractor, one failed by the cancelling hook, and a
\* cancelled one with no error
C13_Witness ==
    /\ \E id \in DOMAIN tasks :
          tasks[id].status = FAILED /\ tasks[id].error \in Messages
    /\ \E id \in DOMAIN tasks :
          tasks[id].status = FAILED /\ tasks[id].error = CancelMessage
    /\ \E id \in DOMAIN tasks :
          tasks[id].status = CANCELLED /\ tasks[id].error = None

\* C14: under SpecLive (manager running, fair workers, every fetch ends) every
\* accepted request is eventually out of the queue and finished by its worker
\* with its task COMPLETED, FAILED or CANCELLED, unless its record is removed.
C14_EveryRequestFinishes ==
    \A id \in TaskIds :
        (id \in DOMAIN tasks) ~>
            (\/ id \notin DOMAIN tasks
             \/ (WorkerDone(id) /\ tasks[id].status \in Terminal))

\* every request accepted, the last of them through the queue while both
\* workers were busy, and all of them finished
C14_Witness ==
    /\ nextId = MaxLiveTasks
    /\ DOMAIN tasks = 1..MaxLiveTasks
    /\ \A id \in DOMAIN tasks : WorkerDone(id) /\ tasks[id].status \in Terminal
    /\ tasks[MaxLiveTasks].status = COMPLETED

\* the requests waiting in the queue
Pending(q) == {q[i] : i \in 1..Len(q)}

\* C15: requests leave the pending queue in admission order: a request that
\* leaves the queue was admitted before every request that stays in it (ids
\* are handed out in admission order).
C15_FifoDequeue ==
    [][Len(queue') < Len(queue) =>
          \A id \in Pending(queue) \ Pending(queue'), later \in Pending(queue') :
              id < later]_vars

\* a worker has just taken a request while a later one stays in the queue
C15_Witness ==
    /\ queue # <<>>
    /\ \E w \in Workers : pc[w] = "submitted" /\ cur[w] < Head(queue)
    /\ nextId = MaxTasks

\* the malformed requests: empty or invalid URL, format or quality outside
\* its enumeration, a playlist item index that is not positive
Malformed(request) ==
    \/ request.url \notin {VideoUrl, PlaylistUrl}
    \/ request.format \notin VideoFormat
    \/ request.quality \notin VideoQuality
    \/ \E i \in 1..Len(request.playlist_items) : request.playlist_items[i] <= 0

\* C16: a malformed download request is answered with a validation error and
\* creates no task record, no cancellation flag and no queue entry.
C16_MalformedRejected ==
    started =>
        \A request \in Requests :
            Malformed(request) =>
                LET r == start_download_result(request, tasks, cancel_flags, queue, new_task_id)
                IN  /\ r.ret = "ValidationError"
                    /\ r.tasks = tasks
                    /\ r.cancel_flags = cancel_flags
                    /\ r.queue = queue

\* C17: a second start() without a stop() in between fails and leaves the
\* queue, the executor and the worker loops (MAX_CONCURRENT_DOWNLOADS of them)
\* as they were.
C17_SecondStartFails ==
    (started /\ running) =>
        /\ start_result.ret = "AlreadyStarted"
        /\ start_result.queue = queue
        /\ ~start_result.new_executor
        /\ start_result.workers_len = MAX_CONCURRENT_DOWNLOADS

\* C18: after stop() every add_download fails with a queue-closed error and
\* creates no record, no flag and no queue entry.
C18_AddAfterStopFails ==
    (started /\ ~running) =>
        LET r == add_download_result(tasks, cancel_flags, queue, new_task_id) IN
          /\ r.ret = "QueueClosed"
          /\ r.tasks = tasks
          /\ r.cancel_flags = cancel_flags
          /\ r.queue = queue

\* the ids add_download has handed out whose record is gone
Removed == (1..nextId) \ DOMAIN tasks

\* C19: remove_task on an id of the store deletes its record and its flag,
\* leaves the others and returns True; on an unknown id it returns False and
\* changes nothing; once an id is removed get_task finds nothing for it, and no
\* later step (worker update, progress callback, cancel, stop) brings its
\* record or its flag back.
C19_RemoveTask ==
    /\ [](\A id \in TaskIds :
             LET r == remove_task_result(tasks, cancel_flags, id) IN
               IF id \in DOMAIN tasks
               THEN /\ r.ret
                    /\ r.tasks = Without(tasks, {id})
                    /\ r.cancel_flags = Without(cancel_flags, {id})
               ELSE /\ ~r.ret
                    /\ r.tasks = tasks
                    /\ r.cancel_flags = cancel_flags)
    /\ [](\A id \in Removed : id \notin DOMAIN cancel_flags /\ get_task(id) = NotFound)
    /\ [][\A id \in Removed : id \notin DOMAIN tasks' /\ id \notin DOMAIN cancel_flags']_vars

\* a record was removed while a pool thread was downloading for it, and the
\* thread has gone on writing
C19_Witness ==
    \E w \in Workers :
        /\ cur[w] \in Removed
        /\ pc[w] \in {"download", "hook"}
        /\ cur[w] \notin DOMAIN cancel_flags

\* the paths of disk d that are the workspace of the artifact or lie in it
InWorkspace(d, artifact) == {p \in d : p[1] = artifact.workspace[1]}

\* C20: cleanup_artifact is idempotent: a call raises nothing, after it the
\* workspace directory and what it held no longer exist and every other
\* workspace is untouched; a second call, or a call on a workspace that is
\* already gone, raises nothing and changes nothing.
C20_CleanupIdempotent ==
    \A artifact \in Artifacts :
        LET first == cleanup_artifact_result(disk, artifact)
            second == cleanup_artifact_result(first.disk, artifact)
        IN  /\ ~first.raised
            /\ first.disk = disk \ InWorkspace(disk, artifact)
            /\ ~second.raised
            /\ second.disk = first.disk
            /\ cleanups[artifact.workspace[1]] > 0 =>
                  (InWorkspace(disk, artifact) = {} /\ first.disk = disk)

\* one workspace cleaned up twice and gone, another still there with its file
C20_Witness ==
    \E a, b \in Artifacts :
        /\ cleanups[a.workspace[1]] = MaxCleanups
        /\ a.workspace \notin disk
        /\ cleanups[b.workspace[1]] = 0
        /\ b.filepath \in disk

\* C21: on the streaming path no way a request can end leaves its workspace
\* on disk: once download_video is over for a request (invalid URL,
\* prepare_download raised, file missing, another error, response streamed),
\* neither the workspace directory nor anything in it exists.
C21_WorkspaceRemoved ==
    \A ws \in Workspaces :
        stream[ws].pc = "done" => InWorkspace(disk, DownloadArtifact(ws)) = {}

\* three requests over: one streamed, one whose file was missing, one whose
\* preparation raised; each had its workspace
C21_Witness ==
    /\ \E ws \in Workspaces : stream[ws].outcome = "Streamed" /\ cleanups[ws] = 1
    /\ \E ws \in Workspaces : stream[ws].outcome = "FileMissing" /\ cleanups[ws] = 1
    /\ \E ws \in Workspaces : stream[ws].outcome = "PrepareError"
    /\ COOKIES_FILE \in disk

\* the requests whose prepare_download is running / is over
Preparing == {ws \in Workspaces : stream[ws].pc \in {"metadata", "download"}}
Prepared == {ws \in Workspaces : stream[ws].pc \in {"prepared", "streaming", "done"}}

\* C22: the temporary cookie jar of a fetch is there while the fetch runs and
\* is gone once prepare_download has ended, by return or by exception; and
\* cleanup_cookie_jar never deletes COOKIES_FILE.
C22_CookieJarReleased ==
    /\ \A ws \in Preparing :
          stream[ws].cookiefile # NoPath => stream[ws].cookiefile \in disk
    /\ \A ws \in Prepared : stream[ws].jar = NoPath
    /\ \A temp_path \in {NoPath, COOKIES_FILE} \cup {stream[ws].cookiefile : ws \in Workspaces} :
          COOKIES_FILE \in disk => COOKIES_FILE \in cleanup_cookie_jar_result(disk, temp_path)

\* the edges of the task state machine
Edges ==
    {<<QUEUED, FETCHING_INFO>>, <<FETCHING_INFO, DOWNLOADING>>, <<FETCHING_INFO, FAILED>>,
     <<DOWNLOADING, PROCESSING>>, <<DOWNLOADING, FAILED>>, <<PROCESSING, COMPLETED>>,
     <<PROCESSING, FAILED>>} \cup (NonTerminal \X {CANCELLED})

\* C23: every change of a record's status follows an edge of the task state
\* machine.
C23_StateMachine ==
    [][\A id \in DOMAIN tasks \cap DOMAIN tasks' :
          tasks'[id].status # tasks[id].status =>
              <<tasks[id].status, tasks'[id].status>> \in Edges]_vars

\* C24: a request cancelled while it waits in the queue, or after a worker
\* took it but before its pool thread started, is never fetched: its record
\* never shows FETCHING_INFO, DOWNLOADING or PROCESSING afterwards, and a
\* request cancelled in the queue is never handed to a pool thread.
C24_CancelledBeforeFetch ==
    \A id \in DOMAIN cancel_at \cap DOMAIN tasks :
        cancel_at[id] \in {"queue", "submitted"} =>
            /\ tasks[id].status \notin Active
            /\ cancel_at[id] = "queue" => \A w \in Workers : cur[w] # id

\* a "downloading" event whose percentage float() cannot parse
Unparseable(d) == d.status = "downloading" /\ ParsePercent(d.percent_str) = ParseError

\* C25: a progress callback with an event that cannot be parsed changes no
\* record (progress, speed, eta, byte counts and status stay as they were)
\* and returns to the download, which goes on.
C25_UnparseableEventIgnored ==
    [][\A w \in Workers :
          (pc[w] = "hook" /\ Unparseable(ev[w]) /\ hook_update(w)) =>
              /\ tasks' = tasks
              /\ pc'[w] = "download"
              /\ cur'[w] = cur[w]]_vars

\* the callback holds an unparseable event while the record shows the
\* progress, speed and byte counts of an earlier one
C25_Witness ==
    \E w \in Workers :
        /\ pc[w] = "hook"
        /\ Unparseable(ev[w])
        /\ cur[w] \in DOMAIN tasks
        /\ tasks[cur[w]].status = DOWNLOADING
        /\ tasks[cur[w]].progress = 50
        /\ tasks[cur[w]].downloaded_bytes = 50

\* C26: add_download with an id that is already in the store fails with a
\* duplicate-id error and leaves the record, its flag and the queue unchanged.
C26_DuplicateIdRejected ==
    (started /\ ~queue_full(queue)) =>
        \A id \in DOMAIN tasks :
            LET r == add_download_result(tasks, cancel_flags, queue, id) IN
              /\ r.ret = "DuplicateId"
              /\ r.tasks = tasks
              /\ r.cancel_flags = cancel_flags
              /\ r.queue = queue

\* the pool thread of worker w is inside ydl.download
InDownload(w) == pc[w] \in {"download", "hook"}

\* C27: once cancel_download has succeeded for a task whose fetch is running,
\* the flag its progress callbacks read stays set for as long as the fetch
\* runs, so that every later callback aborts it - whatever happens to the
\* record in between.
C27_CancelSurvivesRemoval ==
    [][\A w \in Workers :
          (/\ InDownload(w)
           /\ cur[w] \in DOMAIN cancel_at
           /\ cancel_at[cur[w]] \in {"extract", "check", "download", "hook"}
           /\ FlagGet(cur[w])
           /\ cur'[w] = cur[w]
           /\ pc'[w] \in {"download", "hook"})
              => (cur[w] \in DOMAIN cancel_flags' /\ cancel_flags'[cur[w]])]_vars

\* C28: the task store and the cancellation-flag map hold the same ids.
C28_SameIds == DOMAIN tasks = DOMAIN cancel_flags

\* after add_download, cancel_download, a removal and stop(): records and
\* flags for the ids that are left, and nothing for the removed one
C28_Witness ==
    /\ started /\ ~running
    /\ Removed # {}
    /\ Cardinality(DOMAIN tasks) = 2
    /\ DOMAIN cancel_at # {}
    /\ \A id \in DOMAIN cancel_flags : cancel_flags[id]

\* C29: each accepted request is executed at most once: the queue holds no id
\* twice and no id a worker holds, no two workers hold the same id, an id that
\* has left the queue never comes back into it, and a worker gets an id only
\* by taking it out of the queue.
C29_AtMostOnce ==
    /\ [](/\ Cardinality(Pending(queue)) = Len(queue)
          /\ \A w \in Workers : cur[w] \notin Pending(queue)
          /\ \A v, w \in Workers : (v # w /\ cur[v] # NoId) => cur[v] # cur[w])
    /\ [][/\ \A id \in Pending(queue') : (id \in Pending(queue) \/ id > nextId)
          /\ \A w \in Workers :
                (cur'[w] # cur[w] /\ cur'[w] # NoId) =>
                    cur'[w] \in Pending(queue) \ Pending(queue')]_vars

\* both workers fetching for different requests while a third one waits
C29_Witness ==
    /\ \A w \in Workers : pc[w] \in {"extract", "download"}
    /\ Cardinality({cur[w] : w \in Workers}) = MAX_CONCURRENT_DOWNLOADS
    /\ Len(queue) = 1

\* C30: a worker that dequeues the request of a record removed while it was
\* QUEUED skips it: it hands nothing to the pool and goes back to queue.get().
C30_RemovedQueuedSkipped ==
    [][\A w \in Workers :
          (/\ pc[w] = "idle"
           /\ queue # <<>>
           /\ Head(queue) \notin DOMAIN tasks
           /\ worker_dequeue(w))
              => (pc'[w] = "idle" /\ cur'[w] = NoId)]_vars

====
